---- MODULE Spec2Model ----
(***************************************************************************)
(* Model of "Proyecto grupal/main.cpp": a directory scanner that           *)
(* enumerates a tree, splits the path list into chunks, runs generate_map  *)
(* on each chunk in its own std::async task, and merges the partial maps   *)
(* with process_map in launch order.                                       *)
(*                                                                         *)
(* A path is the sequence of its name components below the root.  The      *)
(* filesystem is a function from paths to [kind, size].  A map_type value  *)
(* is a function from directory names to [num_files, total_size].          *)
(* std::uintmax_t sums are modelled as naturals: with the file sizes of    *)
(* the trees below no sum comes near 2^64.                                 *)
(***************************************************************************)
EXTENDS Integers, Sequences, FiniteSets, TLC

VARIABLES tree, paths, fault, pc, hardw_threads, num_futures, max_chunk_sz,
          i, futures, chunk, wstate, result, processed_data,
          directory_counter, passed, divByZero, report

vars == <<tree, paths, fault, pc, hardw_threads, num_futures, max_chunk_sz,
          i, futures, chunk, wstate, result, processed_data,
          directory_counter, passed, divByZero, report>>

-----------------------------------------------------------------------------
(* Bounds *)

\* largest value std::thread::hardware_concurrency() reports in the model
MaxHardw == 4

\* cap on launch-loop iterations (reached only when num_futures wrapped)
MaxLaunch == 4

\* unsigned int arithmetic wraps; the 32-bit modulus is not a TLC integer,
\* so the 32-bit types (unsigned int, int) are kept 16 bits wide: the wrap
\* of "hardw_threads - 1" and the truncation of the int accumulators happen
\* at 2^16 and 2^15 instead of 2^32 and 2^31
UIntMod == 2^16

-----------------------------------------------------------------------------
(* The filesystem *)

Dir == [kind |-> "dir", size |-> 0]
File(sz) == [kind |-> "file", size |-> sz]
Other == [kind |-> "other", size |-> 0]

\* an empty root
TreeEmpty == [p \in {} |-> Dir]

\* a with three regular files, b with none
TreeAB == (<<"a">> :> Dir) @@ (<<"a", "f">> :> File(10))
          @@ (<<"a", "g">> :> File(20)) @@ (<<"a", "h">> :> File(30))
          @@ (<<"b">> :> Dir)

\* two directories at different paths with the same final name component
TreeSameName == (<<"a">> :> Dir) @@ (<<"a", "x">> :> Dir)
                @@ (<<"a", "x", "k">> :> File(7))
                @@ (<<"b">> :> Dir) @@ (<<"b", "x">> :> Dir)
                @@ (<<"b", "x", "k">> :> File(3))

\* a regular file directly under the root, a directory holding a regular
\* file and an entry that is neither a directory nor a regular file
TreeMixed == (<<"r">> :> File(5)) @@ (<<"a">> :> Dir)
             @@ (<<"a", "f">> :> File(10)) @@ (<<"a", "s">> :> Other)

\* two directories with one regular file each
TreeTwo == (<<"a">> :> Dir) @@ (<<"a", "f">> :> File(10))
           @@ (<<"b">> :> Dir) @@ (<<"b", "g">> :> File(20))

\* a directory holding one regular file larger than the largest int
TreeBig == (<<"d">> :> Dir) @@ (<<"d", "v">> :> File(40000))

Trees == {TreeEmpty, TreeAB, TreeSameName, TreeMixed, TreeTwo, TreeBig}

IsPrefix(d, p) == Len(d) < Len(p) /\ SubSeq(p, 1, Len(d)) = d
IsChildOf(p, d) == Len(p) = Len(d) + 1 /\ IsPrefix(d, p)

\* fs::path::filename(): the final name component
Filename(p) == p[Len(p)]

\* the orders fs::recursive_directory_iterator can produce: every entry once,
\* each directory immediately followed by all its descendants; the order of
\* siblings is unspecified
IsPreorder(t, s) ==
    /\ \A p \in DOMAIN t : \E k \in DOMAIN s : s[k] = p
    /\ \A k \in DOMAIN s :
          LET below == {m \in DOMAIN s : IsPrefix(s[k], s[m])}
          IN  below = (k + 1)..(k + Cardinality(below))

Enumerations(t) ==
    {s \in [1..Cardinality(DOMAIN t) -> DOMAIN t] : IsPreorder(t, s)}

\* variant: the children are listed with a recursive iterator
ListingRecursive(d) == SelectSeq(paths, LAMBDA p : IsPrefix(d, p))

\* fs::directory_iterator{d}: the immediate children of d, in the order the
\* enumeration met them
Listing(d) == SelectSeq(paths, LAMBDA p : IsChildOf(p, d))

-----------------------------------------------------------------------------
(* I/O failures: at most one filesystem step of the run fails *)

NoFault == [step |-> "none", path |-> <<>>, after |-> 0]

\* "status": fs::is_directory(pth) on a chunk path throws
\* "list"  : the directory_iterator of path throws after yielding `after`
\*           children (0: when it is opened; all of them: at the last
\*           advance)
\* "stat"  : fs::is_regular_file(entry) throws for the child `path`
\* "size"  : fs::file_size(entry) throws for the regular file `path`
Faults(t) ==
    {NoFault}
    \cup {[step |-> "status", path |-> p, after |-> 0] : p \in DOMAIN t}
    \cup UNION {{[step |-> "list", path |-> d, after |-> k] :
                    k \in 0..Cardinality({c \in DOMAIN t : IsChildOf(c, d)})} :
                 d \in {p \in DOMAIN t : t[p].kind = "dir"}}
    \cup {[step |-> "stat", path |-> p, after |-> 0] :
            p \in {q \in DOMAIN t : Len(q) > 1}}
    \cup {[step |-> "size", path |-> p, after |-> 0] :
            p \in {q \in DOMAIN t : Len(q) > 1 /\ t[q].kind = "file"}}

-----------------------------------------------------------------------------
(* map_type *)

\* a value-initialised Extension_info, what map::operator[] inserts
ZeroInfo == [num_files |-> 0, total_size |-> 0]

EmptyMap == [n \in {} |-> ZeroInfo]

\* m[n], inserting the zero entry when n is absent
MapGet(m, n) == IF n \in DOMAIN m THEN m[n] ELSE ZeroInfo

MapPut(m, n, v) == [k \in DOMAIN m \cup {n} |-> IF k = n THEN v ELSE m[k]]

-----------------------------------------------------------------------------
(* generate_map *)

\* res[dir_name].num_files = 0; res[dir_name].total_size = 0;
ResetEntry(res, name) == MapPut(res, name, ZeroInfo)

\* res[dir_name].num_files += 1
CountFile(res, name) ==
    MapPut(res, name, [MapGet(res, name) EXCEPT !.num_files = @ + 1])

\* res[dir_name].total_size += fs::file_size(entry)
AddSize(res, name, sz) ==
    MapPut(res, name, [MapGet(res, name) EXCEPT !.total_size = @ + sz])

\* the range-for over fs::directory_iterator{d} inside the try block, from
\* the point where k entries have been handled; an exception leaves the loop
\* and is caught: the result is the map as it stands, and caught = TRUE
RECURSIVE ScanFrom(_, _, _, _, _)
ScanFrom(d, name, k, res, flt) ==
    LET entries == Listing(d) IN
    IF flt.step = "list" /\ flt.path = d /\ flt.after = k
    THEN [res |-> res, caught |-> TRUE]
    ELSE IF k >= Len(entries)
    THEN [res |-> res, caught |-> FALSE]
    ELSE LET e == entries[k + 1] IN
         IF flt.step = "stat" /\ flt.path = e
         THEN [res |-> res, caught |-> TRUE]
         ELSE IF tree[e].kind = "file"
         THEN LET counted == CountFile(res, name) IN
              IF flt.step = "size" /\ flt.path = e
              THEN [res |-> counted, caught |-> TRUE]
              ELSE ScanFrom(d, name, k + 1,
                            AddSize(counted, name, tree[e].size), flt)
         ELSE ScanFrom(d, name, k + 1, res, flt)

\* variant: the is-directory test is left out, every path gets an entry
VisitPathNoDirTest(acc, pth, flt) ==
    IF flt.step = "status" /\ flt.path = pth
    THEN [acc EXCEPT !.threw = TRUE]
    ELSE LET name == Filename(pth)
             r == ScanFrom(pth, name, 0, ResetEntry(acc.res, name), flt)
         IN  [res |-> r.res, threw |-> FALSE,
              caught |-> acc.caught + (IF r.caught THEN 1 ELSE 0)]

\* the body of the loop over the chunk for one path; acc is
\* [res, threw, caught]: the map so far, whether an exception has left
\* generate_map, and the number of exceptions caught and logged
VisitPath(acc, pth, flt) ==
    IF flt.step = "status" /\ flt.path = pth
    THEN [acc EXCEPT !.threw = TRUE]
    ELSE IF tree[pth].kind = "dir"
    THEN LET name == Filename(pth)
             r == ScanFrom(pth, name, 0, ResetEntry(acc.res, name), flt)
         IN  [res |-> r.res, threw |-> FALSE,
              caught |-> acc.caught + (IF r.caught THEN 1 ELSE 0)]
    ELSE acc

\* variant: the try/catch wraps the whole loop over the chunk, so a caught
\* exception ends the scan of the chunk
LoopStopsOnCatch(acc) == ~acc.threw /\ acc.caught = 0

\* the try/catch sits inside the loop over the chunk: after a caught
\* exception the loop goes on with the next path; it stops only when an
\* exception leaves the function
LoopGoesOn(acc) == ~acc.threw

RECURSIVE GenFrom(_, _, _, _)
GenFrom(ch, k, acc, flt) ==
    IF k > Len(ch) \/ ~LoopGoesOn(acc)
    THEN acc
    ELSE GenFrom(ch, k + 1, VisitPath(acc, ch[k], flt), flt)

\* generate_map(chunk) when the filesystem step flt fails
generate_map(ch, flt) ==
    GenFrom(ch, 1, [res |-> EmptyMap, threw |-> FALSE, caught |-> 0], flt)

-----------------------------------------------------------------------------
(* process_map *)

\* variant: the entry is assigned, not added to
MergeEntryOverwrite(global, dir, info) == MapPut(global, dir, info)

\* global_map[dir].num_files += info.num_files;
\* global_map[dir].total_size += info.total_size;
MergeEntry(global, dir, info) ==
    MapPut(global, dir,
           [num_files  |-> MapGet(global, dir).num_files + info.num_files,
            total_size |-> MapGet(global, dir).total_size + info.total_size])

RECURSIVE MergeAll(_, _, _)
MergeAll(partial, todo, global) ==
    IF todo = {}
    THEN global
    ELSE LET dir == CHOOSE n \in todo : TRUE
         IN  MergeAll(partial, todo \ {dir},
                      MergeEntry(global, dir, partial[dir]))

\* variant: the counter counts process_map calls, not entries
CounterPlusOne(counter, partial) == counter + 1

\* directory_counter += partial_map.size()
CounterAfter(counter, partial) == counter + Cardinality(DOMAIN partial)

\* variant: the counter update is left out
process_map_no_count(partial, global, counter) ==
    [map     |-> MergeAll(partial, DOMAIN partial, global),
     counter |-> counter]

\* process_map(partial_map, global_map, directory_counter): the new global
\* map and counter
process_map(partial, global, counter) ==
    [map     |-> MergeAll(partial, DOMAIN partial, global),
     counter |-> CounterAfter(counter, partial)]

-----------------------------------------------------------------------------
(* the report *)

\* variant: every entry is printed (the commented-out line of the loop)
PrintedAlways(info) == TRUE

\* if (info.num_files > 0): the entry gets a line
Printed(info) == info.num_files > 0

\* the lines printed for the global map
ReportLines(m) ==
    {[dir |-> n, num_files |-> m[n].num_files, total_size |-> m[n].total_size] :
        n \in {k \in DOMAIN m : Printed(m[k])}}

\* conversion of an unsigned value to int: modulo the width, upper half
\* negative
ToInt(v) ==
    LET low == v % UIntMod
    IN  IF low >= UIntMod \div 2 THEN low - UIntMod ELSE low

\* std::accumulate(begin, end, 0, op) with op returning sum + entry.field:
\* the initial value 0 is an int, so the accumulator is an int and every
\* sum is converted back to int
RECURSIVE Accumulate(_, _, _, _)
Accumulate(m, todo, field, acc) ==
    IF todo = {}
    THEN acc
    ELSE LET n == CHOOSE k \in todo : TRUE
         IN  Accumulate(m, todo \ {n}, field, ToInt(acc + m[n][field]))

\* what lines 114-134 print for the global map m and the counter
SummaryOf(m, counter) ==
    [lines |-> ReportLines(m),
     total_subdirectories |-> Accumulate(m, DOMAIN m, "num_files", 0),
     total_space |-> Accumulate(m, DOMAIN m, "total_size", 0),
     folders |-> counter]

\* nothing printed yet
NoReport ==
    [lines |-> {}, total_subdirectories |-> 0, total_space |-> 0,
     folders |-> 0]

-----------------------------------------------------------------------------
(* main *)

merged == Len(passed)

Init ==
    /\ tree \in Trees
    /\ paths \in Enumerations(tree)
    /\ fault \in Faults(tree)
    /\ pc = "plan"
    /\ hardw_threads = 0
    /\ num_futures = 0
    /\ max_chunk_sz = 0
    /\ i = 0
    /\ futures = <<>>
    /\ chunk = <<>>
    /\ wstate = <<>>
    /\ result = <<>>
    /\ processed_data = EmptyMap
    /\ directory_counter = 0
    /\ passed = <<>>
    /\ divByZero = FALSE
    /\ report = NoReport

\* hardw_threads - 1 in unsigned arithmetic
NumFutures(h) == (h - 1) % UIntMod

\* lines 90-92 with hardware_concurrency() = h >= 1
Plan ==
    /\ pc = "plan"
    /\ \E h \in 1..MaxHardw :
          /\ hardw_threads' = h
          /\ num_futures' = NumFutures(h)
          /\ max_chunk_sz' = Len(paths) \div h
    /\ pc' = "launch"
    /\ UNCHANGED <<report, tree, paths, fault, i, futures, chunk, wstate, result,
                   processed_data, directory_counter, passed, divByZero>>

\* lines 90-92 with hardware_concurrency() = 0 ("not computable"): the
\* subtraction wraps and paths.size() / 0 is undefined behaviour; the
\* division traps (x86) or yields 0 (AArch64 udiv)
PlanZero ==
    /\ pc = "plan"
    /\ MaxHardw >= 0
    /\ hardw_threads' = 0
    /\ num_futures' = NumFutures(0)
    /\ divByZero' = TRUE
    /\ \/ pc' = "crashed" /\ max_chunk_sz' = max_chunk_sz
       \/ pc' = "launch" /\ max_chunk_sz' = 0
    /\ UNCHANGED <<report, tree, paths, fault, i, futures, chunk, wstate, result,
                   processed_data, directory_counter, passed>>

\* variant: the last chunk ends like every other chunk
ChunkEndNoRemainder(k, nf, csz, n) == k * csz + csz

\* begin and end of the i-th chunk as offsets into paths
ChunkBegin(k, csz) == k * csz
ChunkEnd(k, nf, csz, n) == IF k = nf - 1 THEN n ELSE ChunkBegin(k, csz) + csz

\* std::vector<fs::path>(begin, end)
ChunkOf(k) ==
    SubSeq(paths, ChunkBegin(k, max_chunk_sz) + 1,
           ChunkEnd(k, num_futures, max_chunk_sz, Len(paths)))

\* variant: the catch block only logs
NoStandIn(fs) == fs

\* what the catch block of the launch loop pushes
AfterFailedLaunch(fs) == Append(fs, "standin")

\* one iteration of the launch loop; std::async either starts the task or
\* throws, and then a stand-in returning an empty map is pushed
Launch ==
    /\ pc = "launch"
    /\ i < num_futures
    /\ i < MaxLaunch
    /\ chunk' = Append(chunk, ChunkOf(i))
    /\ result' = Append(result, EmptyMap)
    /\ \/ /\ futures' = Append(futures, "worker")
          /\ wstate' = Append(wstate, "running")
       \/ /\ futures' = AfterFailedLaunch(futures)
          /\ wstate' = Append(wstate, "failed")
    /\ i' = i + 1
    /\ UNCHANGED <<report, tree, paths, fault, pc, hardw_threads, num_futures,
                   max_chunk_sz, processed_data, directory_counter, passed,
                   divByZero>>

LaunchDone ==
    /\ pc = "launch"
    /\ ~(i < num_futures)
    /\ pc' = "merge"
    /\ UNCHANGED <<report, tree, paths, fault, hardw_threads, num_futures,
                   max_chunk_sz, i, futures, chunk, wstate, result,
                   processed_data, directory_counter, passed, divByZero>>

Alive == pc \notin {"crashed", "terminated"}

\* the task of future w runs generate_map on its chunk to the end: it
\* returns a map, or an exception is stored in the future
Worker(w) ==
    /\ Alive
    /\ w \in DOMAIN wstate
    /\ wstate[w] = "running"
    /\ LET r == generate_map(chunk[w], fault) IN
          IF r.threw
          THEN /\ wstate' = [wstate EXCEPT ![w] = "threw"]
               /\ result' = result
          ELSE /\ wstate' = [wstate EXCEPT ![w] = "done"]
               /\ result' = [result EXCEPT ![w] = r.res]
    /\ UNCHANGED <<report, tree, paths, fault, pc, hardw_threads, num_futures,
                   max_chunk_sz, i, futures, chunk, processed_data,
                   directory_counter, passed, divByZero>>

\* variant: the result is taken without waiting for the task
NoWait(k) == TRUE

\* future.get() returns (or rethrows) only when the task has ended; the
\* stand-in has nothing to wait for
FutureReady(k) == futures[k] = "standin" \/ wstate[k] \in {"done", "threw"}

\* the value future.get() hands to process_map
FutureGet(k) == IF futures[k] = "standin" THEN EmptyMap ELSE result[k]

\* one iteration of the merge loop: process_map(future.get(), ...); a
\* stored exception is rethrown by get(), leaves main and ends the process
Merge ==
    /\ pc = "merge"
    /\ merged < Len(futures)
    /\ LET k == merged + 1 IN
          /\ FutureReady(k)
          /\ IF futures[k] = "worker" /\ wstate[k] = "threw"
             THEN /\ pc' = "terminated"
                  /\ UNCHANGED <<processed_data, directory_counter, passed>>
             ELSE LET r == process_map(FutureGet(k), processed_data,
                                       directory_counter)
                  IN  /\ processed_data' = r.map
                      /\ directory_counter' = r.counter
                      /\ passed' = Append(passed, FutureGet(k))
                      /\ pc' = pc
    /\ UNCHANGED <<report, tree, paths, fault, hardw_threads, num_futures,
                   max_chunk_sz, i, futures, chunk, wstate, result, divByZero>>

MergeDone ==
    /\ pc = "merge"
    /\ merged = Len(futures)
    /\ pc' = "report"
    /\ UNCHANGED <<report, tree, paths, fault, hardw_threads, num_futures,
                   max_chunk_sz, i, futures, chunk, wstate, result,
                   processed_data, directory_counter, passed, divByZero>>

\* lines 114-134: the lines of the directories with files, then the summary
\* with the two accumulated totals and the counter
Report ==
    /\ pc = "report"
    /\ report' = SummaryOf(processed_data, directory_counter)
    /\ pc' = "done"
    /\ UNCHANGED <<tree, paths, fault, hardw_threads, num_futures,
                   max_chunk_sz, i, futures, chunk, wstate, result,
                   processed_data, directory_counter, passed, divByZero>>

Next ==
    \/ Plan
    \/ PlanZero
    \/ Launch
    \/ LaunchDone
    \/ \E w \in DOMAIN wstate : Worker(w)
    \/ Merge
    \/ MergeDone
    \/ Report

Spec == Init /\ [][Next]_vars

-----------------------------------------------------------------------------
(* Helpers of the properties *)

RECURSIVE Concat(_)
Concat(ss) == IF ss = <<>> THEN <<>> ELSE Head(ss) \o Concat(Tail(ss))

Range(sq) == {sq[k] : k \in DOMAIN sq}

\* the launch loop has ended in the ordinary way
Launched == pc \in {"merge", "report", "done", "terminated"}

\* sum of a field of name n over the first k partial maps given to process_map
RECURSIVE SumNumFiles(_, _)
SumNumFiles(n, k) ==
    IF k = 0 THEN 0
    ELSE SumNumFiles(n, k - 1)
         + (IF n \in DOMAIN passed[k] THEN passed[k][n].num_files ELSE 0)

RECURSIVE SumTotalSize(_, _)
SumTotalSize(n, k) ==
    IF k = 0 THEN 0
    ELSE SumTotalSize(n, k - 1)
         + (IF n \in DOMAIN passed[k] THEN passed[k][n].total_size ELSE 0)

RECURSIVE SumKeyCounts(_)
SumKeyCounts(k) ==
    IF k = 0 THEN 0
    ELSE SumKeyCounts(k - 1) + Cardinality(DOMAIN passed[k])

\* no name is a key of two of the partial maps merged
KeysDisjoint ==
    \A k, m \in DOMAIN passed :
        k # m => DOMAIN passed[k] \cap DOMAIN passed[m] = {}

\* the merge of the results of the successfully launched workers among the
\* first k futures, stand-ins left out
RECURSIVE WorkersOnly(_)
WorkersOnly(k) ==
    IF k = 0 THEN [map |-> EmptyMap, counter |-> 0]
    ELSE LET prev == WorkersOnly(k - 1) IN
         IF futures[k] = "worker"
         THEN process_map(generate_map(chunk[k], fault).res,
                          prev.map, prev.counter)
         ELSE prev

-----------------------------------------------------------------------------
(* Properties *)

\* C1: partition coverage.  For every worker count W >= 1 derived from the
\* hardware parallelism, the chunks built so far, concatenated in launch
\* order, are a prefix of the path list, and once the launch loop has ended
\* there are W chunks and their concatenation is the whole path list.
C1_PartitionCoverage ==
    (~divByZero /\ num_futures >= 1) =>
        /\ Len(Concat(chunk)) <= Len(paths)
        /\ Concat(chunk) = SubSeq(paths, 1, Len(Concat(chunk)))
        /\ Launched => (Len(chunk) = num_futures /\ Concat(chunk) = paths)

C1_Witness ==
    /\ Launched
    /\ ~divByZero
    /\ num_futures >= 2
    /\ Len(paths) >= 5
    /\ \A k \in DOMAIN chunk : Len(chunk[k]) >= 1
    /\ Len(paths) % hardw_threads # 0

\* C2: merge additivity.  After any number of process_map calls into the
\* initially empty global map, its key set is the union of the key sets of
\* the partial maps merged, and each entry holds the sums of that name's
\* num_files and total_size over the partial maps that contain it.
C2_MergeAdditivity ==
    /\ DOMAIN processed_data = UNION {DOMAIN passed[k] : k \in DOMAIN passed}
    /\ \A n \in DOMAIN processed_data :
          /\ processed_data[n].num_files = SumNumFiles(n, merged)
          /\ processed_data[n].total_size = SumTotalSize(n, merged)

C2_Witness ==
    /\ pc = "report"
    /\ \E k, m \in DOMAIN passed :
          /\ k # m
          /\ \E n \in DOMAIN passed[k] \cap DOMAIN passed[m] :
                passed[k][n].num_files > 0 /\ passed[m][n].num_files > 0

EntryOwner(ch, n) ==
    LET named == {k \in DOMAIN ch :
                    tree[ch[k]].kind = "dir" /\ Filename(ch[k]) = n}
    IN  ch[CHOOSE k \in named : \A m \in named : m <= k]

\* C4: fault isolation across directories.  When listing the children of
\* one directory of a chunk fails, generate_map still returns, with the same
\* keys as without the failure and, for every entry that belongs to another
\* directory than the failing one (every other name, and the failing
\* directory's name when a later directory of the chunk bears it too), the
\* same stats as without the failure.
C4_FaultIsolation ==
    \A w \in DOMAIN wstate :
        (futures[w] = "worker" /\ fault.step = "list"
         /\ fault.path \in Range(chunk[w])) =>
            /\ wstate[w] # "threw"
            /\ wstate[w] = "done" =>
                  LET ok == generate_map(chunk[w], NoFault).res IN
                  /\ DOMAIN result[w] = DOMAIN ok
                  /\ \A n \in DOMAIN ok :
                        EntryOwner(chunk[w], n) # fault.path
                            => result[w][n] = ok[n]

C4_Witness ==
    \E w \in DOMAIN wstate :
        /\ wstate[w] = "done"
        /\ fault.step = "list"
        /\ \E k, m \in DOMAIN chunk[w] :
              /\ k < m
              /\ chunk[w][k] = fault.path
              /\ tree[chunk[w][m]].kind = "dir"
              /\ Filename(chunk[w][m]) # Filename(fault.path)
              /\ result[w][Filename(chunk[w][m])].num_files > 0
        /\ result[w] # generate_map(chunk[w], NoFault).res

\* C5: no exception escapes generate_map: no worker's future ever holds an
\* exception.
C5_NoExceptionEscapes ==
    \A w \in DOMAIN wstate : wstate[w] # "threw"

\* C6: progress counter.  After any number k of process_map calls the
\* counter equals the sum of the key counts of the k partial maps merged.
C6_ProgressCounter ==
    directory_counter = SumKeyCounts(merged)

C6_Witness ==
    /\ pc = "merge"
    /\ merged >= 1
    /\ merged < Len(futures)
    /\ \E k \in DOMAIN passed : Cardinality(DOMAIN passed[k]) >= 2
    /\ directory_counter >= 2

\* C7 as stated: after all merges the progress counter equals the number of
\* keys of the global map.
C7_CounterIsKeyCount ==
    pc = "report" => directory_counter = Cardinality(DOMAIN processed_data)

\* C7 as amended: after all merges the progress counter is at least the
\* number of keys of the global map, and equals it exactly when no name is a
\* key of two partial maps.
C7_CounterAtLeastKeyCount ==
    pc = "report" =>
        /\ directory_counter >= Cardinality(DOMAIN processed_data)
        /\ (directory_counter = Cardinality(DOMAIN processed_data))
              <=> KeysDisjoint

C7_Witness ==
    /\ pc = "report"
    /\ ~KeysDisjoint
    /\ directory_counter > Cardinality(DOMAIN processed_data)

\* C8: partition planning never divides by zero and plans a bounded number
\* of workers (no more than the detected parallelism).
C8_NoDivisionByZero ==
    ~divByZero /\ num_futures <= hardw_threads

\* C9: size balance.  For W >= 1 workers and N paths every non-final chunk
\* has floor(N/W) elements and the final chunk has floor(N/W) plus the
\* remainder of N/W.
C9_SizeBalance ==
    (Launched /\ ~divByZero /\ num_futures >= 1) =>
        /\ \A k \in 1..(num_futures - 1) :
              Len(chunk[k]) = Len(paths) \div num_futures
        /\ Len(chunk[num_futures])
              = (Len(paths) \div num_futures) + (Len(paths) % num_futures)

\* C10: launch-failure substitution.  Once the launch loop has ended there
\* is one future per planned worker, whatever launches failed; a stand-in
\* hands process_map an empty map, a launched worker hands it the map its
\* generate_map returned, and the global map and the counter are those of
\* merging the launched workers' results alone.
C10_LaunchFailureSubstitution ==
    /\ (Launched /\ ~divByZero) => Len(futures) = num_futures
    /\ \A k \in DOMAIN passed :
          /\ futures[k] = "standin" => passed[k] = EmptyMap
          /\ futures[k] = "worker" =>
                passed[k] = generate_map(chunk[k], fault).res
    /\ processed_data = WorkersOnly(merged).map
    /\ directory_counter = WorkersOnly(merged).counter

C10_Witness ==
    /\ pc = "report"
    /\ \E k, m \in DOMAIN futures :
          /\ k < m
          /\ futures[k] = "standin"
          /\ chunk[k] # <<>>
          /\ futures[m] = "worker"
          /\ DOMAIN passed[m] # {}
    /\ directory_counter >= 1

\* the run is over: main has printed the summary, or the process has been
\* ended by an exception leaving main
RunEnded == pc \in {"done", "terminated"}

\* C11: exactly-once merge.  When the run is over, the partial map of every
\* launched worker that returned one has been handed to exactly one
\* process_map call: the calls made are those for the futures 1..merged, one
\* each in launch order, and no returned map is left out.
C11_ExactlyOnceMerge ==
    /\ \A k \in DOMAIN passed : passed[k] = FutureGet(k)
    /\ RunEnded =>
          \A w \in DOMAIN wstate : wstate[w] = "done" => w <= merged

\* what the task of future k yields when nothing escapes it
Yield(k) ==
    IF futures[k] = "worker" THEN generate_map(chunk[k], fault).res
    ELSE EmptyMap

RECURSIVE SumYield(_, _, _)
SumYield(n, field, k) ==
    IF k = 0 THEN 0
    ELSE SumYield(n, field, k - 1)
         + (IF n \in DOMAIN Yield(k) THEN Yield(k)[n][field] ELSE 0)

RECURSIVE SumYieldKeys(_)
SumYieldKeys(k) ==
    IF k = 0 THEN 0 ELSE SumYieldKeys(k - 1) + Cardinality(DOMAIN Yield(k))

\* the global map fixed by the tree, the enumeration, the chunks and the
\* launch outcomes alone: key-wise sums of what the tasks yield
ExpectedMap ==
    [n \in UNION {DOMAIN Yield(k) : k \in DOMAIN futures} |->
        [num_files  |-> SumYield(n, "num_files", Len(futures)),
         total_size |-> SumYield(n, "total_size", Len(futures))]]

SomeTaskThrows ==
    \E k \in DOMAIN futures :
        futures[k] = "worker" /\ generate_map(chunk[k], fault).threw

\* C12: determinism under interleaving.  Whatever the order in which the
\* workers run and finish, the outcome is the one fixed by the tree, the
\* enumeration order, the worker count and the launch outcomes: the run ends
\* with an exception exactly when some task throws, and otherwise the final
\* global map, the counter and the printed lines and totals are the same in
\* every interleaving.
C12_Determinism ==
    /\ pc = "terminated" => SomeTaskThrows
    /\ pc \in {"report", "done"} =>
          /\ ~SomeTaskThrows
          /\ processed_data = ExpectedMap
          /\ directory_counter = SumYieldKeys(Len(futures))
    /\ pc = "done" =>
          report = SummaryOf(ExpectedMap, SumYieldKeys(Len(futures)))

C12_Witness ==
    /\ pc = "done"
    /\ \E k, m \in DOMAIN futures :
          /\ k # m
          /\ futures[k] = "worker" /\ futures[m] = "worker"
          /\ \E n \in DOMAIN result[k] : result[k][n].num_files > 0
          /\ \E n \in DOMAIN result[m] : result[m][n].num_files > 0
    /\ report.lines # {}

\* the directories of the tree, and those directly under the root
AllDirs == {p \in DOMAIN tree : tree[p].kind = "dir"}
RootSubdirs == {p \in AllDirs : Len(p) = 1}

NamesOf(ps) == {Filename(p) : p \in ps}

\* every planned worker was launched
AllLaunched == \A k \in DOMAIN futures : futures[k] = "worker"

\* the directories lying in the chunks of the launched workers
ScannedDirs ==
    {p \in AllDirs :
        \E k \in DOMAIN futures :
            futures[k] = "worker" /\ p \in Range(chunk[k])}

\* C13 as stated: with at least one worker and every launch successful, the
\* keys of the final global map are exactly the names of the root's
\* immediate subdirectories.
C13_KeysAreRootSubdirs ==
    (pc \in {"report", "done"} /\ num_futures >= 1 /\ AllLaunched) =>
        DOMAIN processed_data = NamesOf(RootSubdirs)

\* C13 as amended: the keys of the final global map are the names of the
\* directories, at any depth below the root, that lie in the chunks of the
\* launched workers; with at least one worker and every launch successful
\* these are all the directories of the tree.
C13_KeysAreDirsAtAnyDepth ==
    pc \in {"report", "done"} =>
        /\ DOMAIN processed_data = NamesOf(ScannedDirs)
        /\ (num_futures >= 1 /\ AllLaunched) =>
              DOMAIN processed_data = NamesOf(AllDirs)

C13_Witness ==
    /\ pc = "done"
    /\ num_futures >= 1
    /\ AllLaunched
    /\ \E p \in AllDirs :
          /\ Len(p) >= 2
          /\ Filename(p) \notin NamesOf(RootSubdirs)
          /\ Filename(p) \in DOMAIN processed_data

\* exact sum of a field over the entries of m named in todo
RECURSIVE ExactSum(_, _, _)
ExactSum(m, todo, field) ==
    IF todo = {} THEN 0
    ELSE LET n == CHOOSE k \in todo : TRUE
         IN  m[n][field] + ExactSum(m, todo \ {n}, field)

WithFiles(m) == {n \in DOMAIN m : m[n].num_files > 0}

\* C14: summary totals.  The two totals of the summary are the exact sums of
\* num_files and total_size over the entries of the global map that have
\* files.
C14_SummaryTotals ==
    pc = "done" =>
        /\ report.total_subdirectories
              = ExactSum(processed_data, WithFiles(processed_data), "num_files")
        /\ report.total_space
              = ExactSum(processed_data, WithFiles(processed_data), "total_size")

\* C15: zero-file filtering.  A name has a report line exactly when its
\* global entry has num_files > 0, and the line shows that entry; an entry
\* with no files is still a key of the global map and is counted in the
\* number of folders of the summary.
C15_ZeroFileFiltering ==
    pc = "done" =>
        /\ \A n \in DOMAIN processed_data :
              (\E l \in report.lines : l.dir = n)
                  <=> processed_data[n].num_files > 0
        /\ \A l \in report.lines :
              /\ l.dir \in DOMAIN processed_data
              /\ l.num_files = processed_data[l.dir].num_files
              /\ l.total_size = processed_data[l.dir].total_size
        /\ report.folders = directory_counter
        /\ report.folders >= Cardinality(DOMAIN processed_data)

C15_Witness ==
    /\ pc = "done"
    /\ \E n, k \in DOMAIN processed_data :
          /\ processed_data[n].num_files = 0
          /\ processed_data[k].num_files > 0
    /\ Cardinality(report.lines) < Cardinality(DOMAIN processed_data)
    /\ report.lines # {}

\* C16: end-to-end result.  For the tree a{10, 20, 30}, b{} with no I/O or
\* launch failure, every enumeration order and every hardware parallelism
\* >= 1, the run ends with {a: (3, 60), b: (0, 0)}, one line (for a) and the
\* summary 3 files, 60 bytes, 2 directories.
C16_EndToEnd ==
    (pc = "done" /\ tree = TreeAB /\ fault = NoFault /\ AllLaunched
     /\ hardw_threads >= 1) =>
        /\ processed_data
              = ("a" :> [num_files |-> 3, total_size |-> 60])
                @@ ("b" :> [num_files |-> 0, total_size |-> 0])
        /\ report.lines = {[dir |-> "a", num_files |-> 3, total_size |-> 60]}
        /\ report.total_subdirectories = 3
        /\ report.total_space = 60
        /\ report.folders = 2

\* the regular files directly in directory d, their number and total size
ImmediateFiles(d) ==
    {c \in DOMAIN tree : IsChildOf(c, d) /\ tree[c].kind = "file"}

RECURSIVE SizeSum(_)
SizeSum(fl) ==
    IF fl = {} THEN 0
    ELSE LET c == CHOOSE x \in fl : TRUE
         IN  tree[c].size + SizeSum(fl \ {c})

\* all regular files directly in a directory of the set ds
FilesIn(ds) == UNION {ImmediateFiles(d) : d \in ds}

\* per name, the sums over all directories of that name of their immediate
\* file counts and sizes: what no choice of chunks can change
NameSums ==
    [n \in NamesOf(AllDirs) |->
        LET fl == FilesIn({d \in AllDirs : Filename(d) = n})
        IN  [num_files |-> Cardinality(fl), total_size |-> SizeSum(fl)]]

\* C17: independence from chunking.  With no I/O or launch failure and at
\* least one worker, the final global map is the same for every worker
\* count: each name's entry is the sum over all directories of that name,
\* whether they fall in one chunk or in several.
C17_ChunkingIndependence ==
    (pc \in {"report", "done"} /\ fault = NoFault /\ AllLaunched
     /\ num_futures >= 1) =>
        processed_data = NameSums

Parent(p) == SubSeq(p, 1, Len(p) - 1)

\* C18: child-level fault isolation.  When reading the size of one child
\* file of a directory fails, the directory's stats still count every other
\* regular-file child: all their sizes, and all of them (with or without
\* the failing one) in num_files.
C18_ChildFaultIsolation ==
    \A w \in DOMAIN wstate :
        (wstate[w] = "done" /\ fault.step = "size"
         /\ Parent(fault.path) \in Range(chunk[w])
         /\ EntryOwner(chunk[w], Filename(Parent(fault.path)))
               = Parent(fault.path)) =>
            LET d == Parent(fault.path)
                others == ImmediateFiles(d) \ {fault.path}
                got == result[w][Filename(d)]
            IN  /\ got.total_size = SizeSum(others)
                /\ got.num_files >= Cardinality(others)

\* the failing filesystem step belongs to the scan of directory d
FaultIn(d) ==
    \/ fault.step = "list" /\ fault.path = d
    \/ fault.step \in {"stat", "size"} /\ Parent(fault.path) = d

\* C19: partial-map content.  The keys of the map a worker's generate_map
\* returns are exactly the names of the directories among the chunk's paths
\* (a directory whose listing failed included); a path that is not a
\* directory gives no key; and an entry counts only regular files directly in
\* the directory that owns it: all of them when no step of its scan fails.
C19_PartialMapContent ==
    \A w \in DOMAIN wstate :
        wstate[w] = "done" =>
            /\ DOMAIN result[w]
                  = NamesOf({p \in Range(chunk[w]) : tree[p].kind = "dir"})
            /\ \A n \in DOMAIN result[w] :
                  LET d == EntryOwner(chunk[w], n)
                      fl == ImmediateFiles(d)
                  IN  /\ result[w][n].num_files <= Cardinality(fl)
                      /\ result[w][n].total_size <= SizeSum(fl)
                      /\ ~FaultIn(d) =>
                            /\ result[w][n].num_files = Cardinality(fl)
                            /\ result[w][n].total_size = SizeSum(fl)

C19_Witness ==
    \E w \in DOMAIN wstate :
        /\ wstate[w] = "done"
        /\ \E p \in Range(chunk[w]) : tree[p].kind = "file"
        /\ \E d \in Range(chunk[w]) :
              /\ tree[d].kind = "dir"
              /\ result[w][Filename(d)].num_files = 0
              /\ \E c \in DOMAIN tree :
                    /\ tree[c].kind = "file"
                    /\ IsPrefix(d, c)
                    /\ ~IsChildOf(c, d)
                    /\ c \in Range(chunk[w])
        /\ \E n \in DOMAIN result[w] : result[w][n].num_files > 0

====
